---- MODULE Spec2Model ----
(***************************************************************************)
(* A model of AutoLicenser.py: the collector of third-party license files. *)
(*                                                                         *)
(* Strings are sequences of code points (Python str); every string literal *)
(* of the source is written as its code points, with its text beside it.   *)
(* An optional value (None or a str) is the empty tuple or a one-element   *)
(* tuple holding the string.                                               *)
(***************************************************************************)
EXTENDS Integers, Sequences, FiniteSets

-----------------------------------------------------------------------------
(* Python str and re primitives used by the source *)

\* str.isspace() / regex \s on the ASCII range: \t \n \v \f \r, FS GS RS US, space
WS == {9, 10, 11, 12, 13, 28, 29, 30, 31, 32}

NoneVal == <<>>
Some(s) == <<s>>
\* `x or ""` for an optional string
OrEmpty(o) == IF o = NoneVal THEN <<>> ELSE o[1]

SetMin(S) == CHOOSE m \in S : \A k \in S : m <= k
SetMax(S) == CHOOSE m \in S : \A k \in S : m >= k

\* str.lower() / str.upper() of one code point (ASCII)
LowerChar(c) == IF c >= 65 /\ c <= 90 THEN c + 32 ELSE c
UpperChar(c) == IF c >= 97 /\ c <= 122 THEN c - 32 ELSE c
Lower(s) == [i \in 1..Len(s) |-> LowerChar(s[i])]
Upper(s) == [i \in 1..Len(s) |-> UpperChar(s[i])]

\* str.strip()
Strip(s) ==
    LET keep == {i \in 1..Len(s) : s[i] \notin WS}
    IN  IF keep = {} THEN <<>> ELSE SubSeq(s, SetMin(keep), SetMax(keep))

\* t occurs in s at position i
OccursAt(s, t, i) == i >= 1 /\ i + Len(t) - 1 <= Len(s) /\ SubSeq(s, i, i + Len(t) - 1) = t
StartsWith(s, t) == OccursAt(s, t, 1)
EndsWith(s, t) == OccursAt(s, t, Len(s) - Len(t) + 1)
\* `t in s`
Contains(s, t) == \E i \in 1..(Len(s) + 1) : OccursAt(s, t, i)

\* str.replace(old, new) for a non-empty old: every non-overlapping occurrence, left to right
RECURSIVE Replace(_, _, _)
Replace(s, old, new) ==
    IF Len(s) < Len(old) THEN s
    ELSE IF OccursAt(s, old, 1)
         THEN new \o Replace(SubSeq(s, Len(old) + 1, Len(s)), old, new)
         ELSE <<s[1]>> \o Replace(Tail(s), old, new)

\* str < str: by code point, a proper prefix first
RECURSIVE StrLess(_, _)
StrLess(a, b) ==
    IF b = <<>> THEN FALSE
    ELSE IF a = <<>> THEN TRUE
    ELSE IF a[1] # b[1] THEN a[1] < b[1]
    ELSE StrLess(Tail(a), Tail(b))

\* sep.join(items)
RECURSIVE Join(_, _)
Join(items, sep) ==
    IF items = <<>> THEN <<>>
    ELSE IF Len(items) = 1 THEN items[1]
    ELSE items[1] \o sep \o Join(Tail(items), sep)

\* the indices kept by a filtering loop, in the order the loop visits them
SelectIdx(keep) ==
    [k \in 1..Cardinality(keep) |-> CHOOSE n \in keep : Cardinality({m \in keep : m < n}) = k - 1]

\* the first occurrence of each element, order kept
Dedup(seq) == LET idx == SelectIdx({i \in 1..Len(seq) : \A j \in 1..(i - 1) : seq[j] # seq[i]})
              IN  [k \in 1..Len(idx) |-> seq[idx[k]]]

-----------------------------------------------------------------------------
(* _norm_name *)

\* [A-Za-z0-9._+-]
SafeChar(c) ==
    \/ c >= 65 /\ c <= 90
    \/ c >= 97 /\ c <= 122
    \/ c >= 48 /\ c <= 57
    \/ c \in {46, 95, 43, 45}

\* re.sub(r"\s+", "_", s)
RECURSIVE SubWsRuns(_)
SubWsRuns(s) ==
    IF s = <<>> THEN <<>>
    ELSE IF s[1] \in WS
         THEN IF Len(s) >= 2 /\ s[2] \in WS THEN SubWsRuns(Tail(s))
              ELSE <<95>> \o SubWsRuns(Tail(s))
         ELSE <<s[1]>> \o SubWsRuns(Tail(s))

_norm_name(name) ==
    LET s == SubWsRuns(Strip(name))
    IN  [i \in 1..Len(s) |-> IF SafeChar(s[i]) THEN s[i] ELSE 95]

-----------------------------------------------------------------------------
(* LICENSE_BASENAME_RE.match *)

LicenseTokens == {<<108, 105, 99, 101, 110, 115, 101>> (* "license" *), <<99, 111, 112, 121, 105, 110, 103>> (* "copying" *), <<110, 111, 116, 105, 99, 101>> (* "notice" *)}

\* ^(LICENSE|COPYING|NOTICE)([._-].+)?$ on a name without its optional final \n
MatchesCore(b) ==
    \E tok \in LicenseTokens :
        /\ StartsWith(Lower(b), tok)
        /\ LET rest == SubSeq(b, Len(tok) + 1, Len(b))
           IN  \/ rest = <<>>
               \/ /\ Len(rest) >= 2
                  /\ rest[1] \in {46, 95, 45}
                  /\ \A i \in 2..Len(rest) : rest[i] # 10

\* re.IGNORECASE; `$` also matches before a final line feed
LICENSE_BASENAME_RE(base) ==
    \/ MatchesCore(base)
    \/ /\ Len(base) >= 1
       /\ base[Len(base)] = 10
       /\ MatchesCore(SubSeq(base, 1, Len(base) - 1))

-----------------------------------------------------------------------------
(* _infer_license_from_metadata: meta is [License: optional str, Classifier: Seq(str)] *)

FullTextLimit == 120

FullTextKeywords ==
    {<<99, 111, 112, 121, 114, 105, 103, 104, 116>> (* "copyright" *), <<112, 101, 114, 109, 105, 115, 115, 105, 111, 110>> (* "permission" *), <<119, 97, 114, 114, 97, 110, 116, 121>> (* "warranty" *), <<114, 101, 100, 105, 115, 116, 114, 105, 98, 117, 116, 105, 111, 110>> (* "redistribution" *), <<108, 105, 97, 98, 105, 108, 105, 116, 121>> (* "liability" *)}

\* the classifiers that are license classifiers, stripped
LicClassifiers(classifiers) ==
    LET idx == SelectIdx({i \in 1..Len(classifiers) :
                              StartsWith(Strip(classifiers[i]), <<76, 105, 99, 101, 110, 115, 101, 32, 58, 58>> (* "License ::" *))})
    IN  [k \in 1..Len(idx) |-> Strip(classifiers[idx[k]])]

Simplify(x) ==
    LET s == Strip(Replace(x, <<79, 83, 73, 32, 65, 112, 112, 114, 111, 118, 101, 100, 32, 58, 58>> (* "OSI Approved ::" *), <<>>))
    IN  IF EndsWith(s, <<76, 105, 99, 101, 110, 115, 101>> (* "License" *))
        THEN Strip(SubSeq(s, 1, Len(s) - Len(<<76, 105, 99, 101, 110, 115, 101>> (* "License" *))))
        ELSE s

_short_from_classifiers(items) ==
    IF items = <<>> THEN <<>>
    ELSE LET cleaned == [i \in 1..Len(items) |-> Strip(Replace(items[i], <<76, 105, 99, 101, 110, 115, 101, 32, 58, 58>> (* "License ::" *), <<>>))]
             uniq == Dedup(cleaned)
             simplified == [i \in 1..Len(uniq) |-> Simplify(uniq[i])]
         IN  Join(simplified, <<59, 32>> (* "; " *))

\* a variant without the keyword test
_looks_like_full_text_no_keywords(s) ==
    IF s = <<>> THEN FALSE
    ELSE IF \E i \in 1..Len(s) : s[i] \in {10, 13} THEN TRUE
    ELSE Len(s) > FullTextLimit

_looks_like_full_text(s) ==
    IF s = <<>> THEN FALSE
    ELSE IF \E i \in 1..Len(s) : s[i] \in {10, 13} THEN TRUE
    ELSE IF Len(s) > FullTextLimit THEN TRUE
    ELSE \E k \in FullTextKeywords : Contains(Lower(s), k)

\* `guess or "UNKNOWN"`
OrUnknown(guess) == IF guess = <<>> THEN <<85, 78, 75, 78, 79, 87, 78>> (* "UNKNOWN" *) ELSE guess

_infer_license_from_metadata(meta) ==
    LET classifier_guess == _short_from_classifiers(LicClassifiers(meta.Classifier))
        lic_field == Strip(OrEmpty(meta.License))
    IN  IF _looks_like_full_text(lic_field) THEN OrUnknown(classifier_guess)
        ELSE IF lic_field # <<>> /\ Upper(lic_field) # <<85, 78, 75, 78, 79, 87, 78>> (* "UNKNOWN" *) THEN lic_field
        ELSE OrUnknown(classifier_guess)

-----------------------------------------------------------------------------
(* The installed environment.                                              *)
(* A distribution is [Name, version, License: optional str,                *)
(* Classifier: Seq(str), files: optional Seq(path)]; dist.name is the      *)
(* metadata's Name. A site-packages tree is [dirs: the names of its        *)
(* top-level directories, files: the paths (relative, "/"-separated) that  *)
(* are regular files, links: path -> the path it resolves to].             *)

\* dist.metadata.get("Name") or dist.name
DistName(dist) == OrEmpty(dist.Name)

\* dist.version or "UNKNOWN"
DistVer(dist) == IF OrEmpty(dist.version) = <<>> THEN <<85, 78, 75, 78, 79, 87, 78>> (* "UNKNOWN" *) ELSE dist.version[1]

\* Path(s).name: the text after the last "/"
Basename(s) ==
    LET slashes == {i \in 1..Len(s) : s[i] = 47}
    IN  IF slashes = {} THEN s ELSE SubSeq(s, SetMax(slashes) + 1, Len(s))

\* Path.is_file() of a located manifest entry or a walked path
IsFile(fs, p) == p \in fs.files

\* str(p.resolve())
Resolve(fs, p) == IF p \in DOMAIN fs.links THEN fs.links[p] ELSE p

\* every ordering of a finite set (a directory listing comes in the OS's order)
RECURSIVE Perms(_)
Perms(set) ==
    IF set = {} THEN {<<>>}
    ELSE UNION {{<<x>> \o rest : rest \in Perms(set \ {x})} : x \in set}

-----------------------------------------------------------------------------
(* _find_dist_info_dir *)

\* re.escape: a backslash before each of ()[]{}?*+-|^$\.&~# and ASCII whitespace
ReSpecial == {40, 41, 91, 93, 123, 125, 63, 42, 43, 45, 124, 94, 36, 92, 46, 38, 126, 35,
              32, 9, 10, 13, 11, 12}

RECURSIVE re_escape(_)
re_escape(s) ==
    IF s = <<>> THEN <<>>
    ELSE (IF s[1] \in ReSpecial THEN <<92, s[1]>> ELSE <<s[1]>>) \o re_escape(Tail(s))

SepChars == {45, 95, 46}

\* re.sub(r"[-_.]+", "[-_.]+", e)
RECURSIVE SubSepRuns(_)
SubSepRuns(e) ==
    IF e = <<>> THEN <<>>
    ELSE IF e[1] \in SepChars
         THEN IF Len(e) >= 2 /\ e[2] \in SepChars THEN SubSepRuns(Tail(e))
              ELSE <<91, 45, 95, 46, 93, 43>> (* "[-_.]+" *) \o SubSepRuns(Tail(e))
         ELSE <<e[1]>> \o SubSepRuns(Tail(e))

\* The regular expressions this pattern can be: literals, \c, the class [-_.], `.`
\* and the quantifier +. A token is [kind, ch, plus].
RECURSIVE ReParse(_)
ReParse(p) ==
    IF p = <<>> THEN <<>>
    ELSE LET atom == IF p[1] = 92 /\ Len(p) >= 2 THEN [kind |-> "lit", ch |-> p[2], n |-> 2]
                     ELSE IF StartsWith(p, <<91, 45, 95, 46, 93>> (* "[-_.]" *)) THEN [kind |-> "class", ch |-> 0, n |-> 5]
                     ELSE IF p[1] = 46 THEN [kind |-> "any", ch |-> 0, n |-> 1]
                     ELSE [kind |-> "lit", ch |-> p[1], n |-> 1]
             plus == Len(p) > atom.n /\ p[atom.n + 1] = 43
             used == atom.n + (IF plus THEN 1 ELSE 0)
         IN  <<[kind |-> atom.kind, ch |-> atom.ch, plus |-> plus]>>
                 \o ReParse(SubSeq(p, used + 1, Len(p)))

TokMatch(tok, c) ==
    CASE tok.kind = "lit" -> LowerChar(c) = LowerChar(tok.ch)
      [] tok.kind = "class" -> c \in SepChars
      [] tok.kind = "any" -> c # 10

\* re.compile("^" + p + "$", re.IGNORECASE).match(s)
ReMatch(p, s) ==
    LET toks == ReParse(p)
        RECURSIVE M(_, _)
        M(k, j) ==
            IF k > Len(toks)
            THEN j = Len(s) + 1 \/ (j = Len(s) /\ s[j] = 10)
            ELSE /\ j <= Len(s)
                 /\ TokMatch(toks[k], s[j])
                 /\ (M(k + 1, j + 1) \/ (toks[k].plus /\ M(k, j + 1)))
    IN  M(1, 1)

\* site_packages.glob("*.dist-info") filtered by is_dir()
DistInfoDirs(fs) == {d \in fs.dirs : EndsWith(d, <<46, 100, 105, 115, 116, 45, 105, 110, 102, 111>> (* ".dist-info" *)) }

\* the directories the function can return: None, or the first match in the
\* order the OS lists the directory
_find_dist_info_dir(fs, dist) ==
    LET dist_name == DistName(dist)
        dist_ver == DistVer(dist)
        n == SubSepRuns(re_escape(dist_name))
        v == re_escape(dist_ver)
        pattern == n \o <<91, 45, 95, 46, 93, 43>> (* "[-_.]+" *) \o v \o <<92, 46, 100, 105, 115, 116, 45, 105, 110, 102, 111>> (* "\\.dist-info" *)
        exact == {d \in DistInfoDirs(fs) : ReMatch(pattern, d)}
        candidates == {d \in DistInfoDirs(fs) :
                          /\ Contains(Lower(d), Lower(_norm_name(dist_name)))
                          /\ Contains(Lower(d), Lower(dist_ver))}
        shortest == {d \in candidates : \A e \in candidates : Len(d) <= Len(e)}
    IN  IF exact # {} THEN {Some(d) : d \in exact}
        ELSE IF candidates # {} THEN {Some(d) : d \in shortest}
        ELSE {NoneVal}

-----------------------------------------------------------------------------
(* _select_license_files_from_dist *)

\* whether the manifest scan keeps entry f (before add_if_file)
ManifestRule(f) ==
    LET s == Replace(f, <<92>>, <<47>>)
        base == Basename(s)
    IN  \/ /\ Contains(s, <<47, 46, 100, 105, 115, 116, 45, 105, 110, 102, 111, 47>> (* "/.dist-info/" *)) \/ EndsWith(s, <<46, 100, 105, 115, 116, 45, 105, 110, 102, 111>> (* ".dist-info" *))
           /\ \/ LICENSE_BASENAME_RE(base)
              \/ Contains(Lower(s), <<47, 46, 100, 105, 115, 116, 45, 105, 110, 102, 111, 47, 108, 105, 99, 101, 110, 115, 101, 115, 47>> (* "/.dist-info/licenses/" *))
        \/ LICENSE_BASENAME_RE(base)

\* 1) the manifest entries kept, in manifest order
PrimaryPaths(fs, dist) ==
    LET files == IF dist.files = NoneVal THEN <<>> ELSE dist.files[1]
        idx == SelectIdx({i \in 1..Len(files) : ManifestRule(files[i]) /\ IsFile(fs, files[i])})
    IN  [k \in 1..Len(idx) |-> files[idx[k]]]

\* 2) whether the walk of the dist-info directory is entered
UsesFallback(fs, dist, dist_info_dir) ==
    PrimaryPaths(fs, dist) = <<>> /\ dist_info_dir # NoneVal /\ dist_info_dir[1] \in fs.dirs

\* the files the walk keeps
FallbackSet(fs, dir) ==
    {p \in fs.files :
        /\ StartsWith(p, dir \o <<47>>)
        /\ LET rel == Lower(SubSeq(p, Len(dir) + 2, Len(p)))
           IN  LICENSE_BASENAME_RE(Basename(p)) \/ StartsWith(rel, <<108, 105, 99, 101, 110, 115, 101, 115, 47>> (* "licenses/" *))}

\* the first path of each resolved, lower-cased key
UniqPaths(fs, paths) ==
    LET key(p) == Lower(Resolve(fs, p))
        idx == SelectIdx({i \in 1..Len(paths) : \A j \in 1..(i - 1) : key(paths[j]) # key(paths[i])})
    IN  [k \in 1..Len(idx) |-> paths[idx[k]]]

\* the lists the function can return (rglob lists in the OS's order)
_select_license_files_from_dist(fs, dist, dist_info_dir) ==
    IF UsesFallback(fs, dist, dist_info_dir)
    THEN {UniqPaths(fs, paths) : paths \in Perms(FallbackSet(fs, dist_info_dir[1]))}
    ELSE {UniqPaths(fs, PrimaryPaths(fs, dist))}

-----------------------------------------------------------------------------
(* _copy_with_unique_name                                                  *)
(* The output directory is [exists, files]: files maps each file name in   *)
(* it to [stamp, src], the number of the copy that wrote it (0: it was     *)
(* there before the run) and the path it was copied from.                  *)

EmptyFiles == [x \in {} |-> 0]
NoDir == [exists |-> FALSE, files |-> EmptyFiles]
Put(f, k, v) == [x \in DOMAIN f \cup {k} |-> IF x = k THEN v ELSE f[x]]
Restrict(f, K) == [x \in K |-> f[x]]

\* str(i) for i >= 0
RECURSIVE Dec(_)
Dec(n) == IF n < 10 THEN <<48 + n>> ELSE Dec(n \div 10) \o <<48 + (n % 10)>>

\* PurePath.suffix and PurePath.stem: i = name.rfind("."), used when 0 < i < len(name) - 1
DotAt(name) ==
    LET dots == {i \in 1..Len(name) : name[i] = 46}
    IN  IF dots = {} THEN 0 ELSE SetMax(dots)
HasSuffix(name) == 1 < DotAt(name) /\ DotAt(name) < Len(name)
PathSuffix(name) == IF HasSuffix(name) THEN SubSeq(name, DotAt(name), Len(name)) ELSE <<>>
PathStem(name) == IF HasSuffix(name) THEN SubSeq(name, 1, DotAt(name) - 1) ELSE name

\* a variant that skips the `if dst.exists()` search and always takes <prefix>-<basename>
UniqueName_overwrite(names, prefix, base) == prefix \o <<45>> \o base

\* the name the copy lands on, given the names that exist in the directory
UniqueName(names, prefix, base) ==
    LET dst_name == prefix \o <<45>> \o base
        stem == PathStem(dst_name)
        suffix == PathSuffix(dst_name)
        cand(i) == stem \o <<95>> \o Dec(i) \o suffix
        free == {i \in 2..(Cardinality(names) + 2) : cand(i) \notin names}
    IN  IF dst_name \in names THEN cand(SetMin(free)) ELSE dst_name

\* What one call does. outcome: "ok"; "mkdir_fails" (out_dir.mkdir raises);
\* "copy_fails_before" (shutil.copy2 raises before it creates dst);
\* "copy_fails_partial" (it raises after creating dst).
\* The result is [out, name, raised].
_copy_with_unique_name(out, src, prefix, outcome, stamp) ==
    IF outcome = "mkdir_fails" THEN [out |-> out, name |-> <<>>, raised |-> TRUE]
    ELSE LET made == [exists |-> TRUE, files |-> out.files]
             name == UniqueName(DOMAIN made.files, prefix, Basename(src))
             written == [made EXCEPT !.files = Put(made.files, name, [stamp |-> stamp, src |-> src])]
         IN  CASE outcome = "copy_fails_before" -> [out |-> made, name |-> name, raised |-> TRUE]
               [] outcome = "copy_fails_partial" -> [out |-> written, name |-> name, raised |-> TRUE]
               [] outcome = "ok" -> [out |-> written, name |-> name, raised |-> FALSE]

\* the outcomes the file system allows: mkdir(exist_ok=True) cannot fail on a directory
CopyOutcomes(out) ==
    {"ok", "copy_fails_before", "copy_fails_partial"}
        \cup (IF out.exists THEN {} ELSE {"mkdir_fails"})

-----------------------------------------------------------------------------
(* sorted() *)

\* list.sort / sorted(seq, key=...): stable, ascending in the str keys; keys[n] is the key
\* of seq[n]
SortStable(seq, keys) ==
    LET RECURSIVE insert(_, _)
        insert(sorted, n) ==
            IF sorted = <<>> THEN <<n>>
            ELSE IF StrLess(keys[n], keys[sorted[1]]) THEN <<n>> \o sorted
            ELSE <<sorted[1]>> \o insert(Tail(sorted), n)
        RECURSIVE sort(_)
        sort(n) == IF n = 0 THEN <<>> ELSE insert(sort(n - 1), n)
        idx == sort(Len(seq))
    IN  [k \in 1..Len(seq) |-> seq[idx[k]]]

-----------------------------------------------------------------------------
(* The run: main -> collect_licenses -> write_third_party_notices *)

\* the longest catalog the checked environments hold
MaxDists == 2

\* the distributions an environment's catalog is drawn from
Universe == <<
    [Name |-> Some(<<112, 105, 112>> (* "pip" *)), version |-> Some(<<50, 51, 46, 48>> (* "23.0" *)),
     License |-> Some(<<77, 73, 84>> (* "MIT" *)),
     Classifier |-> <<<<76, 105, 99, 101, 110, 115, 101, 32, 58, 58, 32, 79, 83, 73, 32, 65, 112, 112, 114, 111, 118, 101, 100, 32, 58, 58, 32, 77, 73, 84, 32, 76, 105, 99, 101, 110, 115, 101>> (* "License :: OSI Approved :: MIT License" *)>>,
     files |-> NoneVal],
    [Name |-> Some(<<70, 111, 111, 32, 66, 97, 114>> (* "Foo Bar" *)), version |-> Some(<<49, 46, 48>> (* "1.0" *)),
     License |-> NoneVal,
     Classifier |-> <<<<76, 105, 99, 101, 110, 115, 101, 32, 58, 58, 32, 79, 83, 73, 32, 65, 112, 112, 114, 111, 118, 101, 100, 32, 58, 58, 32, 66, 83, 68, 32, 76, 105, 99, 101, 110, 115, 101>> (* "License :: OSI Approved :: BSD License" *)>>,
     files |-> Some(<<<<70, 111, 111, 95, 66, 97, 114, 45, 49, 46, 48, 46, 100, 105, 115, 116, 45, 105, 110, 102, 111, 47, 76, 73, 67, 69, 78, 83, 69>> (* "Foo_Bar-1.0.dist-info/LICENSE" *), <<102, 111, 111, 95, 98, 97, 114, 47, 76, 73, 67, 69, 78, 83, 69>> (* "foo_bar/LICENSE" *)>>)],
    [Name |-> Some(<<90, 108, 105, 98>> (* "Zlib" *)), version |-> Some(<<49, 46, 51>> (* "1.3" *)),
     License |-> Some(<<67, 111, 112, 121, 114, 105, 103, 104, 116, 32, 90, 108, 105, 98>> (* "Copyright Zlib" *)),
     Classifier |-> <<>>,
     files |-> Some(<<<<90, 108, 105, 98, 45, 49, 46, 51, 46, 100, 105, 115, 116, 45, 105, 110, 102, 111, 47, 77, 69, 84, 65, 68, 65, 84, 65>> (* "Zlib-1.3.dist-info/METADATA" *), <<122, 108, 105, 98, 47, 76, 73, 67, 69, 78, 83, 69>> (* "zlib/LICENSE" *)>>)],
    [Name |-> NoneVal, version |-> NoneVal,
     License |-> NoneVal,
     Classifier |-> <<>>,
     files |-> Some(<<<<98, 114, 111, 107, 101, 110, 47, 76, 73, 67, 69, 78, 83, 69>> (* "broken/LICENSE" *)>>)]
>>

\* the site-packages tree of the checked environments
SitePackages ==
    [dirs |-> {<<112, 105, 112, 45, 50, 51, 46, 48, 46, 100, 105, 115, 116, 45, 105, 110, 102, 111>> (* "pip-23.0.dist-info" *), <<70, 111, 111, 95, 66, 97, 114, 45, 49, 46, 48, 46, 100, 105, 115, 116, 45, 105, 110, 102, 111>> (* "Foo_Bar-1.0.dist-info" *), <<102, 111, 111, 95, 98, 97, 114>> (* "foo_bar" *),
               <<90, 108, 105, 98, 45, 49, 46, 51, 46, 100, 105, 115, 116, 45, 105, 110, 102, 111>> (* "Zlib-1.3.dist-info" *), <<122, 108, 105, 98>> (* "zlib" *), <<98, 114, 111, 107, 101, 110>> (* "broken" *)},
     files |-> {<<112, 105, 112, 45, 50, 51, 46, 48, 46, 100, 105, 115, 116, 45, 105, 110, 102, 111, 47, 77, 69, 84, 65, 68, 65, 84, 65>> (* "pip-23.0.dist-info/METADATA" *), <<112, 105, 112, 45, 50, 51, 46, 48, 46, 100, 105, 115, 116, 45, 105, 110, 102, 111, 47, 76, 73, 67, 69, 78, 83, 69, 46, 116, 120, 116>> (* "pip-23.0.dist-info/LICENSE.txt" *),
                <<70, 111, 111, 95, 66, 97, 114, 45, 49, 46, 48, 46, 100, 105, 115, 116, 45, 105, 110, 102, 111, 47, 76, 73, 67, 69, 78, 83, 69>> (* "Foo_Bar-1.0.dist-info/LICENSE" *), <<102, 111, 111, 95, 98, 97, 114, 47, 76, 73, 67, 69, 78, 83, 69>> (* "foo_bar/LICENSE" *),
                <<90, 108, 105, 98, 45, 49, 46, 51, 46, 100, 105, 115, 116, 45, 105, 110, 102, 111, 47, 77, 69, 84, 65, 68, 65, 84, 65>> (* "Zlib-1.3.dist-info/METADATA" *), <<98, 114, 111, 107, 101, 110, 47, 76, 73, 67, 69, 78, 83, 69>> (* "broken/LICENSE" *)},
     links |-> EmptyFiles]

\* sys.version.split()[0]
PyVersion == <<51, 46, 49, 49, 46, 54>> (* "3.11.6" *)

Catalogs == UNION {[1..n -> 1..Len(Universe)] : n \in 0..MaxDists}
ExcludeArgs == {<<>>, <<<<112, 105, 112>> (* "pip" *), <<115, 101, 116, 117, 112, 116, 111, 111, 108, 115>> (* "setuptools" *), <<119, 104, 101, 101, 108>> (* "wheel" *)>>, <<<<70, 111, 111, 32, 66, 97, 114>> (* "Foo Bar" *), <<80, 121, 116, 104, 111, 110>> (* "Python" *), <<80, 73, 80>> (* "PIP" *)>>}
BaseLicenses == {{}, {<<76, 73, 67, 69, 78, 83, 69>> (* "LICENSE" *), <<76, 73, 67, 69, 78, 83, 69, 46, 114, 115, 116>> (* "LICENSE.rst" *)}}
PreExisting == [stamp |-> 0, src |-> <<>>]
OutDirs == {NoDir,
            [exists |-> TRUE, files |-> [n \in {<<70, 111, 111, 95, 66, 97, 114, 45, 76, 73, 67, 69, 78, 83, 69>> (* "Foo_Bar-LICENSE" *), <<80, 121, 116, 104, 111, 110, 45, 76, 73, 67, 69, 78, 83, 69>> (* "Python-LICENSE" *)}
                                           |-> PreExisting]]}

VARIABLES
    argv,         \* parse_args(): [clean, exclude]
    env,          \* what the run finds: [site_packages (found or not), catalog, base_files, out0]
    out,          \* the output directory
    notices,      \* the notices file: None, or [blocks, warnings]
    pc,           \* where the run is
    exclude,      \* main's exclude set
    order,        \* collect_licenses: sorted(dists, key=sort_key)
    i,            \* the position of the loop over order
    lic_files,    \* the current distribution's located files
    j,            \* the position of the loop over lic_files
    copied,       \* the current distribution's copied names
    results,      \* collect_licenses: results
    warnings,     \* collect_licenses: warnings
    nwrites,      \* how many files the run has written
    nfail,        \* how many copies have raised
    exit_status,  \* None while running, then the process's exit status
    meta, label,                             \* one call of _infer_license_from_metadata
    loc_fs, loc_dist, loc_dir, loc_paths,    \* one call of _select_license_files_from_dist
    cp_in, cp_out, cp_name                   \* one call of _copy_with_unique_name

varsRun == <<argv, env, out, notices, pc, exclude, order, i, lic_files, j, copied, results,
             warnings, nwrites, nfail, exit_status>>
varsInfer == <<meta, label>>
varsLocate == <<loc_fs, loc_dist, loc_dir, loc_paths>>
varsCopy == <<cp_in, cp_out, cp_name>>
varsOther == <<varsInfer, varsLocate, varsCopy>>
vars == <<varsRun, varsOther>>

NoMeta == [License |-> NoneVal, Classifier |-> <<>>]
NoFs == [dirs |-> {}, files |-> {}, links |-> EmptyFiles]
IdleRun ==
    /\ argv = [clean |-> FALSE, exclude |-> <<>>]
    /\ env = [site_packages |-> FALSE, catalog |-> <<>>, base_files |-> {}, out0 |-> NoDir]
    /\ out = NoDir /\ notices = NoneVal /\ pc = "idle" /\ exclude = {} /\ order = <<>>
    /\ i = 1 /\ lic_files = <<>> /\ j = 1 /\ copied = <<>> /\ results = <<>>
    /\ warnings = <<>> /\ nwrites = 0 /\ nfail = 0 /\ exit_status = NoneVal
IdleInfer == meta = NoMeta /\ label = NoneVal
IdleLocate == loc_fs = NoFs /\ loc_dist = Universe[4] /\ loc_dir = NoneVal /\ loc_paths = NoneVal
IdleCopy == cp_in = [out |-> NoDir, prefix |-> <<>>, src |-> <<>>] /\ cp_out = NoDir /\ cp_name = NoneVal

Dist(k) == Universe[k]

\* a variant that forgets .lower()
ExcludeSet_no_lower(args) == {_norm_name(args[k]) : k \in 1..Len(args)}

\* main: exclude = {_norm_name(x).lower() for x in (args.exclude or [])}
ExcludeSet(args) == {Lower(_norm_name(args[k])) : k \in 1..Len(args)}

\* a variant that recreates the directory after the removal
main_clean_recreate(clean, o) == IF clean THEN {[exists |-> TRUE, files |-> EmptyFiles]} ELSE {o}

\* main: the directories `if args.clean and output_dir.exists(): shutil.rmtree(output_dir,
\* ignore_errors=True)` can leave: gone, or (errors ignored) there with any of its files
main_clean(clean, o) ==
    IF clean /\ o.exists
    THEN {NoDir} \cup {[exists |-> TRUE, files |-> Restrict(o.files, K)] : K \in SUBSET DOMAIN o.files}
    ELSE {o}

\* a variant that forgets .lower()
sort_key_case_sensitive(dist) == DistName(dist)

\* collect_licenses: sort_key
sort_key(dist) == Lower(DistName(dist))

\* collect_licenses: `norm in exclude or dist_name.lower() in exclude`
Excluded(dist_name, excl) ==
    Lower(_norm_name(dist_name)) \in excl \/ Lower(dist_name) \in excl

\* the candidate _try_copy_python_license copies: the first that is a file
PythonLicenseCandidates == <<<<76, 73, 67, 69, 78, 83, 69, 46, 116, 120, 116>> (* "LICENSE.txt" *), <<76, 73, 67, 69, 78, 83, 69>> (* "LICENSE" *), <<76, 73, 67, 69, 78, 83, 69, 46, 114, 115, 116>> (* "LICENSE.rst" *)>>
PythonLicense(base_files) ==
    LET found == {k \in 1..Len(PythonLicenseCandidates) : PythonLicenseCandidates[k] \in base_files}
    IN  IF found = {} THEN NoneVal ELSE Some(PythonLicenseCandidates[SetMin(found)])

Warn(kind, name, ver, file) == [kind |-> kind, name |-> name, ver |-> ver, file |-> file]

\* SystemExit(<message>) and an uncaught exception both end the process with status 1
FailureStatus == 1

Init ==
    /\ argv \in [clean : BOOLEAN, exclude : ExcludeArgs]
    /\ env \in [site_packages : BOOLEAN, catalog : Catalogs, base_files : BaseLicenses,
                out0 : OutDirs]
    /\ out = env.out0
    /\ notices = NoneVal /\ pc = "main" /\ exclude = {} /\ order = <<>>
    /\ i = 1 /\ lic_files = <<>> /\ j = 1 /\ copied = <<>> /\ results = <<>>
    /\ warnings = <<>> /\ nwrites = 0 /\ nfail = 0 /\ exit_status = NoneVal
    /\ IdleInfer /\ IdleLocate /\ IdleCopy

\* main, up to the call of collect_licenses
main_start ==
    /\ pc = "main"
    /\ exclude' = ExcludeSet(argv.exclude)
    /\ out' \in main_clean(argv.clean, out)
    /\ pc' = "collect"
    /\ UNCHANGED <<varsOther, argv, env, notices, order, i, lic_files, j, copied, results, warnings,
                   nwrites, nfail, exit_status>>

\* collect_licenses: _site_packages_dir() raises SystemExit
collect_abort ==
    /\ pc = "collect"
    /\ ~env.site_packages
    /\ pc' = "aborted"
    /\ exit_status' = Some(FailureStatus)
    /\ UNCHANGED <<varsOther, argv, env, out, notices, exclude, order, i, lic_files, j, copied, results,
                   warnings, nwrites, nfail>>

\* collect_licenses, up to the loop
collect_begin ==
    /\ pc = "collect"
    /\ env.site_packages
    /\ warnings' = <<>>
    /\ results' = <<>>
    /\ order' = SortStable(env.catalog,
                           [n \in 1..Len(env.catalog) |-> sort_key(Dist(env.catalog[n]))])
    /\ i' = 1
    /\ pc' = "loop"
    /\ UNCHANGED <<varsOther, argv, env, out, notices, exclude, lic_files, j, copied, nwrites, nfail,
                   exit_status>>

\* `if not dist_name: continue`
skip_nameless ==
    /\ pc = "loop" /\ i <= Len(order)
    /\ DistName(Dist(order[i])) = <<>>
    /\ i' = i + 1
    /\ UNCHANGED <<varsOther, argv, env, out, notices, pc, exclude, order, lic_files, j, copied, results,
                   warnings, nwrites, nfail, exit_status>>

\* `if norm in exclude or dist_name.lower() in exclude: continue`
skip_excluded ==
    /\ pc = "loop" /\ i <= Len(order)
    /\ DistName(Dist(order[i])) # <<>>
    /\ Excluded(DistName(Dist(order[i])), exclude)
    /\ i' = i + 1
    /\ UNCHANGED <<varsOther, argv, env, out, notices, pc, exclude, order, lic_files, j, copied, results,
                   warnings, nwrites, nfail, exit_status>>

\* a distribution's turn, up to the loop over its license files
begin_dist ==
    /\ pc = "loop" /\ i <= Len(order)
    /\ DistName(Dist(order[i])) # <<>>
    /\ ~Excluded(DistName(Dist(order[i])), exclude)
    /\ \E dist_info_dir \in _find_dist_info_dir(SitePackages, Dist(order[i])) :
          lic_files' \in _select_license_files_from_dist(SitePackages, Dist(order[i]), dist_info_dir)
    /\ copied' = <<>>
    /\ j' = 1
    /\ pc' = "copy"
    /\ UNCHANGED <<varsOther, argv, env, out, notices, exclude, order, i, results, warnings, nwrites,
                   nfail, exit_status>>

\* one turn of `for lf in lic_files`: the copy, or the warning of a copy that raised
copy_file ==
    /\ pc = "copy" /\ j <= Len(lic_files)
    /\ \E outcome \in CopyOutcomes(out) :
          LET dist == Dist(order[i])
              r == _copy_with_unique_name(out, lic_files[j], _norm_name(DistName(dist)),
                                          outcome, nwrites + 1)
          IN  /\ out' = r.out
              /\ nwrites' = IF outcome \in {"ok", "copy_fails_partial"}
                            THEN nwrites + 1 ELSE nwrites
              /\ IF r.raised
                 THEN /\ warnings' = Append(warnings, Warn("copy failed", DistName(dist),
                                                          DistVer(dist), lic_files[j]))
                      /\ nfail' = nfail + 1
                      /\ UNCHANGED copied
                 ELSE /\ copied' = Append(copied, r.name)
                      /\ UNCHANGED <<warnings, nfail>>
    /\ j' = j + 1
    /\ UNCHANGED <<varsOther, argv, env, notices, pc, exclude, order, i, lic_files, results, exit_status>>

\* a variant that, after the warning of an empty `copied`, goes on to the next
\* distribution without a record
finish_dist_drop_empty ==
    /\ pc = "copy" /\ j > Len(lic_files)
    /\ LET dist == Dist(order[i])
       IN  IF copied = <<>>
           THEN /\ warnings' = Append(warnings, Warn("no license file found", DistName(dist),
                                                     DistVer(dist), <<>>))
                /\ UNCHANGED results
           ELSE /\ results' = Append(results,
                                     [dist_name |-> DistName(dist),
                                      dist_version |-> DistVer(dist),
                                      inferred_license |-> _infer_license_from_metadata(dist),
                                      copied_files |-> SortStable(copied, copied)])
                /\ UNCHANGED warnings
    /\ i' = i + 1
    /\ pc' = "loop"
    /\ UNCHANGED <<varsOther, argv, env, out, notices, exclude, order, lic_files, j, copied,
                   nwrites, nfail, exit_status>>

\* after the loop over lic_files: the warning of an empty `copied`, and the record
finish_dist ==
    /\ pc = "copy" /\ j > Len(lic_files)
    /\ LET dist == Dist(order[i])
       IN  /\ warnings' = IF copied = <<>>
                          THEN Append(warnings, Warn("no license file found", DistName(dist),
                                                     DistVer(dist), <<>>))
                          ELSE warnings
           /\ results' = Append(results,
                                [dist_name |-> DistName(dist),
                                 dist_version |-> DistVer(dist),
                                 inferred_license |-> _infer_license_from_metadata(dist),
                                 copied_files |-> SortStable(copied, copied)])
    /\ i' = i + 1
    /\ pc' = "loop"
    /\ UNCHANGED <<varsOther, argv, env, out, notices, exclude, order, lic_files, j, copied, nwrites,
                   nfail, exit_status>>

PythonRecord(py_copied) ==
    [dist_name |-> <<80, 121, 116, 104, 111, 110>> (* "Python" *),
     dist_version |-> PyVersion,
     inferred_license |-> <<80, 121, 116, 104, 111, 110, 32, 83, 111, 102, 116, 119, 97, 114, 101, 32, 70, 111, 117, 110, 100, 97, 116, 105, 111, 110, 32, 76, 105, 99, 101, 110, 115, 101, 32, 40, 80, 83, 70, 45, 50, 46, 48, 41>> (* "Python Software Foundation License (PSF-2.0)" *),
     copied_files |-> <<py_copied>>]

\* after the loop over the distributions: _try_copy_python_license finds no candidate
python_license_missing ==
    /\ pc = "loop" /\ i > Len(order)
    /\ PythonLicense(env.base_files) = NoneVal
    /\ warnings' = Append(warnings, Warn("Python runtime LICENSE was not found", <<>>, <<>>, <<>>))
    /\ pc' = "returned"
    /\ UNCHANGED <<varsOther, argv, env, out, notices, exclude, order, i, lic_files, j, copied, results,
                   nwrites, nfail, exit_status>>

\* _try_copy_python_license copies the candidate; a copy that raises is caught nowhere
python_license_copy ==
    /\ pc = "loop" /\ i > Len(order)
    /\ PythonLicense(env.base_files) # NoneVal
    /\ \E outcome \in CopyOutcomes(out) :
          LET r == _copy_with_unique_name(out, PythonLicense(env.base_files)[1], <<80, 121, 116, 104, 111, 110>> (* "Python" *),
                                          outcome, nwrites + 1)
          IN  /\ out' = r.out
              /\ nwrites' = IF outcome \in {"ok", "copy_fails_partial"}
                            THEN nwrites + 1 ELSE nwrites
              /\ IF r.raised
                 THEN /\ pc' = "crashed"
                      /\ exit_status' = Some(FailureStatus)
                      /\ nfail' = nfail + 1
                      /\ UNCHANGED results
                 ELSE /\ pc' = "returned"
                      /\ results' = Append(results, PythonRecord(r.name))
                      /\ UNCHANGED <<exit_status, nfail>>
    /\ UNCHANGED <<varsOther, argv, env, notices, exclude, order, i, lic_files, j, copied, warnings>>

\* write_third_party_notices: one block per record, sorted, then the warnings
NoticesDocument(copies, warns) ==
    [blocks |-> SortStable(copies, [n \in 1..Len(copies) |-> Lower(copies[n].dist_name)]),
     warnings |-> warns]

\* main, after collect_licenses returned
write_notices ==
    /\ pc = "returned"
    /\ notices' = Some(NoticesDocument(results, warnings))
    /\ exit_status' = Some(0)
    /\ pc' = "done"
    /\ UNCHANGED <<varsOther, argv, env, out, exclude, order, i, lic_files, j, copied, results, warnings,
                   nwrites, nfail>>

Next ==
    \/ main_start
    \/ collect_abort
    \/ collect_begin
    \/ skip_nameless
    \/ skip_excluded
    \/ begin_dist
    \/ copy_file
    \/ finish_dist
    \/ python_license_missing
    \/ python_license_copy
    \/ write_notices

Spec == Init /\ [][Next]_vars
-----------------------------------------------------------------------------
(* One call of _infer_license_from_metadata on each metadata of a bounded set *)

\* the longest Classifier list checked
MaxClassifiers == 2

\* a License field one character over the limit
LongLicense == [k \in 1..(FullTextLimit + 1) |-> 120]

LicenseFields ==
    {NoneVal,
     Some(<<>>),
     Some(<<77, 73, 84>> (* "MIT" *)),
     Some(<<32, 77, 73, 84, 10>> (* " MIT\n" *)),
     Some(<<117, 110, 107, 110, 111, 119, 110>> (* "unknown" *)),
     Some(<<67, 111, 112, 121, 114, 105, 103, 104, 116, 32, 40, 99, 41, 32, 50, 48, 50, 48, 32, 88>> (* "Copyright (c) 2020 X" *)),
     Some(<<66, 83, 68, 10, 108, 105, 110, 101, 32, 50>> (* "BSD\nline 2" *)),
     Some(LongLicense),
     Some(<<32>> \o SubSeq(LongLicense, 1, FullTextLimit) \o <<32>>),
     Some(<<72, 105, 115, 116, 111, 114, 105, 99, 97, 108, 32, 80, 101, 114, 109, 105, 115, 115, 105, 111, 110, 32, 78, 111, 116, 105, 99, 101, 32, 97, 110, 100, 32, 68, 105, 115, 99, 108, 97, 105, 109, 101, 114, 32, 40, 72, 80, 78, 68, 41>> (* "Historical Permission Notice and Disclaimer (HPND)" *))}

ClassifierValues ==
    <<<<76, 105, 99, 101, 110, 115, 101, 32, 58, 58, 32, 79, 83, 73, 32, 65, 112, 112, 114, 111, 118, 101, 100, 32, 58, 58, 32, 77, 73, 84, 32, 76, 105, 99, 101, 110, 115, 101>> (* "License :: OSI Approved :: MIT License" *),
      <<76, 105, 99, 101, 110, 115, 101, 32, 58, 58, 32, 79, 83, 73, 32, 65, 112, 112, 114, 111, 118, 101, 100, 32, 58, 58, 32, 72, 105, 115, 116, 111, 114, 105, 99, 97, 108, 32, 80, 101, 114, 109, 105, 115, 115, 105, 111, 110, 32, 78, 111, 116, 105, 99, 101, 32, 97, 110, 100, 32, 68, 105, 115, 99, 108, 97, 105, 109, 101, 114, 32, 40, 72, 80, 78, 68, 41>> (* "License :: OSI Approved :: Historical Permission Notice and Disclaimer (HPND)" *),
      <<76, 105, 99, 101, 110, 115, 101, 32, 58, 58, 32, 70, 111, 111, 10, 66, 97, 114>> (* "License :: Foo\nBar" *),
      <<80, 114, 111, 103, 114, 97, 109, 109, 105, 110, 103, 32, 76, 97, 110, 103, 117, 97, 103, 101, 32, 58, 58, 32, 80, 121, 116, 104, 111, 110>> (* "Programming Language :: Python" *),
      <<76, 105, 99, 101, 110, 115, 101, 32, 58, 58>> (* "License ::" *)>>

ClassifierLists ==
    UNION {{[k \in 1..n |-> ClassifierValues[f[k]]] : f \in [1..n -> 1..Len(ClassifierValues)]}
              : n \in 0..MaxClassifiers}

InitInfer ==
    /\ meta \in [License : LicenseFields, Classifier : ClassifierLists]
    /\ label = NoneVal
    /\ IdleRun /\ IdleLocate /\ IdleCopy

infer ==
    /\ label = NoneVal
    /\ label' = Some(_infer_license_from_metadata(meta))
    /\ UNCHANGED <<meta, varsRun, varsLocate, varsCopy>>

NextInfer == infer

SpecInfer == InitInfer /\ [][NextInfer]_vars

-----------------------------------------------------------------------------
(* One call of _select_license_files_from_dist on each manifest and tree of a bounded set *)

\* the longest manifest checked
MaxManifest == 2

ManifestPaths ==
    <<<<102, 111, 111, 45, 49, 46, 48, 46, 100, 105, 115, 116, 45, 105, 110, 102, 111, 47, 76, 73, 67, 69, 78, 83, 69>> (* "foo-1.0.dist-info/LICENSE" *),
      <<102, 111, 111, 45, 49, 46, 48, 46, 100, 105, 115, 116, 45, 105, 110, 102, 111, 47, 108, 105, 99, 101, 110, 115, 101, 115, 47, 65, 85, 84, 72, 79, 82, 83, 46, 109, 100>> (* "foo-1.0.dist-info/licenses/AUTHORS.md" *),
      <<102, 111, 111, 47, 76, 73, 67, 69, 78, 83, 69, 46, 116, 120, 116>> (* "foo/LICENSE.txt" *),
      <<102, 111, 111, 47, 95, 95, 105, 110, 105, 116, 95, 95, 46, 112, 121>> (* "foo/__init__.py" *),
      <<118, 101, 110, 100, 111, 114, 47, 46, 100, 105, 115, 116, 45, 105, 110, 102, 111, 47, 108, 105, 99, 101, 110, 115, 101, 115, 47, 65, 85, 84, 72, 79, 82, 83>> (* "vendor/.dist-info/licenses/AUTHORS" *)>>

Manifests ==
    {NoneVal} \cup
    UNION {{Some([k \in 1..n |-> ManifestPaths[f[k]]]) : f \in [1..n -> 1..Len(ManifestPaths)]}
              : n \in 0..MaxManifest}

Trees ==
    {[dirs |-> {<<102, 111, 111, 45, 49, 46, 48, 46, 100, 105, 115, 116, 45, 105, 110, 102, 111>> (* "foo-1.0.dist-info" *), <<102, 111, 111>> (* "foo" *), <<118, 101, 110, 100, 111, 114>> (* "vendor" *)}, files |-> F, links |-> L] :
        F \in SUBSET {ManifestPaths[k] : k \in 1..Len(ManifestPaths)},
        L \in {EmptyFiles, [x \in {<<102, 111, 111, 47, 76, 73, 67, 69, 78, 83, 69, 46, 116, 120, 116>> (* "foo/LICENSE.txt" *)} |-> <<102, 111, 111, 45, 49, 46, 48, 46, 100, 105, 115, 116, 45, 105, 110, 102, 111, 47, 76, 73, 67, 69, 78, 83, 69>> (* "foo-1.0.dist-info/LICENSE" *)]}}

InitLocate ==
    /\ loc_fs \in Trees
    /\ \E m \in Manifests :
          loc_dist = [Name |-> Some(<<102, 111, 111>> (* "foo" *)), version |-> Some(<<49, 46, 48>> (* "1.0" *)), License |-> NoneVal,
                      Classifier |-> <<>>, files |-> m]
    /\ loc_dir \in _find_dist_info_dir(loc_fs, loc_dist) \cup {NoneVal}
    /\ loc_paths = NoneVal
    /\ IdleRun /\ IdleInfer /\ IdleCopy

locate ==
    /\ loc_paths = NoneVal
    /\ \E paths \in _select_license_files_from_dist(loc_fs, loc_dist, loc_dir) :
          loc_paths' = Some(paths)
    /\ UNCHANGED <<loc_fs, loc_dist, loc_dir, varsRun, varsInfer, varsCopy>>

NextLocate == locate

SpecLocate == InitLocate /\ [][NextLocate]_vars

-----------------------------------------------------------------------------
(* One call of _copy_with_unique_name on each prefix, file and directory of a bounded set *)

\* the highest number whose suffixed names the directory may already hold
MaxSuffix == 3

CopyPrefixes == {_norm_name(<<102, 111, 111>> (* "foo" *)), _norm_name(<<122, 111, 112, 101, 46, 105, 110, 116, 101, 114, 102, 97, 99, 101>> (* "zope.interface" *))}
CopySources == {<<112, 107, 103, 47, 76, 73, 67, 69, 78, 83, 69>> (* "pkg/LICENSE" *), <<112, 107, 103, 47, 76, 73, 67, 69, 78, 83, 69, 46, 116, 120, 116>> (* "pkg/LICENSE.txt" *)}

\* <prefix>-<basename> with _k before the basename's extension
SuffixedBeforeExtension(prefix, base, k) ==
    prefix \o <<45>> \o PathStem(base) \o <<95>> \o Dec(k) \o PathSuffix(base)

\* the names a directory may hold before the call: the target, and its numbered variants
TakenNames(prefix, base) ==
    {prefix \o <<45>> \o base}
        \cup {SuffixedBeforeExtension(prefix, base, k) : k \in 2..MaxSuffix}
        \cup {PathStem(prefix \o <<45>> \o base) \o <<95>> \o Dec(k)
                  \o PathSuffix(prefix \o <<45>> \o base) : k \in 2..MaxSuffix}

InitCopy ==
    /\ \E prefix \in CopyPrefixes, src \in CopySources :
          \/ cp_in = [out |-> NoDir, prefix |-> prefix, src |-> src]
          \/ \E taken \in SUBSET TakenNames(prefix, Basename(src)) :
                cp_in = [out |-> [exists |-> TRUE, files |-> [n \in taken |-> PreExisting]],
                         prefix |-> prefix, src |-> src]
    /\ cp_out = cp_in.out
    /\ cp_name = NoneVal
    /\ IdleRun /\ IdleInfer /\ IdleLocate

copy ==
    /\ cp_name = NoneVal
    /\ \E outcome \in CopyOutcomes(cp_out) :
          LET r == _copy_with_unique_name(cp_out, cp_in.src, cp_in.prefix, outcome, 1)
          IN  /\ cp_out' = r.out
              /\ cp_name' = IF r.raised THEN Some(<<>>) ELSE Some(r.name)
    /\ UNCHANGED <<cp_in, varsRun, varsInfer, varsLocate>>

NextCopy == copy

SpecCopy == InitCopy /\ [][NextCopy]_vars
-----------------------------------------------------------------------------
(* Properties *)

Returned == pc \in {"returned", "done"}

\* the elements of a sequence
Range(seq) == {seq[k] : k \in 1..Len(seq)}

\* how often x occurs in seq
Count(seq, x) == Cardinality({k \in 1..Len(seq) : seq[k] = x})

\* the runtime's record is the last of the results once collect has returned with it
HasPythonRecord == Returned /\ PythonLicense(env.base_files) # NoneVal
CatalogRecords == IF HasPythonRecord THEN SubSeq(results, 1, Len(results) - 1) ELSE results

\* the copied names recorded so far, in the order of the records
RECURSIVE Flatten(_)
Flatten(seqs) == IF seqs = <<>> THEN <<>> ELSE seqs[1] \o Flatten(Tail(seqs))
RecordedNames ==
    Flatten([k \in 1..Len(results) |-> results[k].copied_files])
        \o (IF pc = "copy" THEN copied ELSE <<>>)

(* C1: a copy never writes to a name that already exists in the output directory: *)
(* no step changes a file that is in the directory before and after it, and the   *)
(* copied names recorded in the results are pairwise distinct.                    *)
C1_NoFileChanged ==
    \A n \in DOMAIN out.files : n \in DOMAIN out'.files => out'.files[n] = out.files[n]
C1_NamesDistinct ==
    \A a, b \in 1..Len(RecordedNames) : a # b => RecordedNames[a] # RecordedNames[b]
C1_NeverOverwrites == [][C1_NoFileChanged]_vars /\ []C1_NamesDistinct

\* a run into a directory that held Foo_Bar-LICENSE: it is still the old file, and the
\* two LICENSE files of "Foo Bar" were copied as _2 and _3
C1_Witness ==
    /\ pc = "done"
    /\ <<70, 111, 111, 95, 66, 97, 114, 45, 76, 73, 67, 69, 78, 83, 69>> (* "Foo_Bar-LICENSE" *) \in DOMAIN out.files
    /\ out.files[<<70, 111, 111, 95, 66, 97, 114, 45, 76, 73, 67, 69, 78, 83, 69>> (* "Foo_Bar-LICENSE" *)] = PreExisting
    /\ \E k \in 1..Len(results) :
          results[k].copied_files = <<<<70, 111, 111, 95, 66, 97, 114, 45, 76, 73, 67, 69, 78, 83, 69, 95, 50>> (* "Foo_Bar-LICENSE_2" *), <<70, 111, 111, 95, 66, 97, 114, 45, 76, 73, 67, 69, 78, 83, 69, 95, 51>> (* "Foo_Bar-LICENSE_3" *)>>
\* the catalog entries collect makes a record for
Named(k) == DistName(Dist(env.catalog[k])) # <<>>
NotExcluded(k) == ~Excluded(DistName(Dist(env.catalog[k])), exclude)
IsRecordOf(r, d) == r.dist_name = DistName(d) /\ r.dist_version = DistVer(d)
RecordsOf(recs, d) == Cardinality({n \in 1..Len(recs) : IsRecordOf(recs[n], d)})
EntriesOf(d) == Cardinality({n \in 1..Len(env.catalog) : Dist(env.catalog[n]) = d})

\* the document holds each record of the results exactly once
NoticesListEachOnce ==
    pc = "done" =>
        /\ notices # NoneVal
        /\ Len(notices[1].blocks) = Len(results)
        /\ \A r \in Range(results) : Count(notices[1].blocks, r) = Count(results, r)

C3_CopyFailureNeverAborts ==
    /\ pc # "crashed"
    /\ Cardinality({k \in 1..Len(warnings) : warnings[k].kind = "copy failed"}) = nfail

IsSortedCI(recs) ==
    \A a, b \in 1..Len(recs) :
        a < b => ~StrLess(Lower(recs[b].dist_name), Lower(recs[a].dist_name))

\* warnings grows by appending only
WarningsAppended ==
    /\ Len(warnings) <= Len(warnings')
    /\ SubSeq(warnings', 1, Len(warnings)) = warnings

(* C5, as stated: the records collect returns are sorted by distribution name,  *)
(* case-insensitively, the runtime's record included, and warnings only grows   *)
(* by appending.                                                                *)
C5_ResultsSorted ==
    [](Returned => IsSortedCI(results)) /\ [][WarningsAppended]_vars

(* C5, amended: the records of the catalog distributions are sorted by           *)
(* distribution name, case-insensitively, and the runtime's record, when the     *)
(* runtime license was copied, is the last record whatever its place in that     *)
(* order; warnings only grows by appending.                                      *)
C5_CatalogRecordsSorted ==
    /\ [](Returned =>
             /\ IsSortedCI(CatalogRecords)
             /\ \A n \in 1..Len(CatalogRecords) : CatalogRecords[n] \notin
                   {PythonRecord(f) : f \in DOMAIN out.files}
             /\ HasPythonRecord =>
                   /\ results # <<>>
                   /\ results[Len(results)] \in {PythonRecord(f) : f \in DOMAIN out.files})
    /\ [][WarningsAppended]_vars

\* collect returned two warnings and the records of Zlib and of the runtime, in this order
C5_Witness ==
    /\ Returned
    /\ Len(results) = 2
    /\ results[1].dist_name = <<90, 108, 105, 98>> (* "Zlib" *)
    /\ results[2].dist_name = <<80, 121, 116, 104, 111, 110>> (* "Python" *)
    /\ Len(warnings) >= 1

\* the claim's test of exclusion, on the set collect was called with
InExcludeSet(name) == _norm_name(name) \in exclude \/ Lower(name) \in exclude

\* the files of a distribution that collect could copy
LicenseFilesOf(d) ==
    UNION {UNION {Range(l) : l \in _select_license_files_from_dist(SitePackages, d, dir)}
              : dir \in _find_dist_info_dir(SitePackages, d)}

(* C6: a distribution whose normalized name or raw lowercase name is in the exclude *)
(* set leaves no record, no warning and no copied file; the runtime's record is     *)
(* made whenever its license was copied, whatever the exclude set.                  *)
C6_ExcludedLeaveNoTrace ==
    /\ \A k \in 1..Len(env.catalog) :
          LET d == Dist(env.catalog[k])
          IN  Named(k) /\ InExcludeSet(DistName(d)) =>
                 /\ \A r \in Range(CatalogRecords) : r.dist_name # DistName(d)
                 /\ \A w \in Range(warnings) : w.name # DistName(d)
                 /\ \A n \in DOMAIN out.files :
                       out.files[n].stamp > 0 => out.files[n].src \notin LicenseFilesOf(d)
    /\ HasPythonRecord =>
          /\ results # <<>>
          /\ results[Len(results)] \in {PythonRecord(f) : f \in DOMAIN out.files}

\* a finished run with pip and python in the exclude set, over a catalog that holds pip,
\* whose license file exists: the only record is the runtime's
C6_Witness ==
    /\ pc = "done"
    /\ <<112, 105, 112>> (* "pip" *) \in exclude /\ <<112, 121, 116, 104, 111, 110>> (* "python" *) \in exclude
    /\ \E k \in 1..Len(env.catalog) : DistName(Dist(env.catalog[k])) = <<112, 105, 112>> (* "pip" *)
    /\ LicenseFilesOf(Universe[1]) # {}
    /\ Len(results) = 1 /\ results[1].dist_name = <<80, 121, 116, 104, 111, 110>> (* "Python" *)

\* the claim's test of the "License" field as it stands in the metadata: multi-line, or
\* longer than the limit, or holding one of the keywords in any case
FieldIsFullText(raw) ==
    \/ \E n \in 1..Len(raw) : raw[n] \in {10, 13}
    \/ Len(raw) > FullTextLimit
    \/ \E kw \in FullTextKeywords : Contains(Lower(raw), kw)

\* the short label of the Classifier values alone
ClassifierGuess == _short_from_classifiers(LicClassifiers(meta.Classifier))

(* C7, as stated: when the "License" field is multi-line, longer than 120 characters *)
(* or holds a flagged keyword, the label does not contain the field's value,         *)
(* whatever the Classifier values.                                                   *)
C7_FieldNeverInLabel ==
    label # NoneVal /\ meta.License # NoneVal /\ FieldIsFullText(meta.License[1])
        => ~Contains(label[1], meta.License[1])

(* C7, amended: in that case the label does not contain the field's value unless *)
(* the short label derived from the Classifier values itself contains it.        *)
C7_FieldInLabelOnlyFromClassifiers ==
    /\ label # NoneVal /\ meta.License # NoneVal /\ FieldIsFullText(meta.License[1])
    /\ ~Contains(ClassifierGuess, meta.License[1])
    => ~Contains(label[1], meta.License[1])

\* a copyright line as the field, with the MIT classifier: the label is "MIT"
C7_Witness ==
    /\ meta.License = Some(<<67, 111, 112, 121, 114, 105, 103, 104, 116, 32, 40, 99, 41, 32, 50, 48, 50, 48, 32, 88>> (* "Copyright (c) 2020 X" *))
    /\ meta.Classifier = <<<<76, 105, 99, 101, 110, 115, 101, 32, 58, 58, 32, 79, 83, 73, 32, 65, 112, 112, 114, 111, 118, 101, 100, 32, 58, 58, 32, 77, 73, 84, 32, 76, 105, 99, 101, 110, 115, 101>> (* "License :: OSI Approved :: MIT License" *)>>
    /\ label = Some(<<77, 73, 84>> (* "MIT" *))

(* C8: the label is a non-empty single line, for every "License" field and every *)
(* list of Classifier values.                                                    *)
C8_LabelSingleLine ==
    label # NoneVal =>
        /\ label[1] # <<>>
        /\ \A n \in 1..Len(label[1]) : label[1][n] \notin {10, 13}

\* the directory part of a path
Dirname(s) ==
    LET slashes == {n \in 1..Len(s) : s[n] = 47}
    IN  IF slashes = {} THEN <<>> ELSE SubSeq(s, 1, SetMax(slashes) - 1)

\* the claim's three rules for a manifest entry
RuleDirectlyUnderMetadataDir(s) ==
    EndsWith(Dirname(s), <<46, 100, 105, 115, 116, 45, 105, 110, 102, 111>> (* ".dist-info" *)) /\ LICENSE_BASENAME_RE(Basename(s))
RuleUnderLicensesDir(s) == Contains(Lower(s), <<46, 100, 105, 115, 116, 45, 105, 110, 102, 111, 47, 108, 105, 99, 101, 110, 115, 101, 115, 47>> (* ".dist-info/licenses/" *))
RuleLicenseBasename(s) == LICENSE_BASENAME_RE(Basename(s))

\* the manifest entries the primary tier is to return
Qualifying ==
    LET files == IF loc_dist.files = NoneVal THEN <<>> ELSE loc_dist.files[1]
    IN  {f \in Range(files) :
            /\ IsFile(loc_fs, f)
            /\ \/ RuleDirectlyUnderMetadataDir(f)
               \/ RuleUnderLicensesDir(f)
               \/ RuleLicenseBasename(f)}

(* C9: every manifest entry that is a regular file and meets one of the three rules *)
(* is returned (as itself, or as the entry of the same resolved path that came      *)
(* first), and a path found by the directory walk is returned only when no manifest *)
(* entry qualifies.                                                                 *)
C9_ManifestRulesReturned ==
    loc_paths # NoneVal =>
        /\ \A f \in Qualifying :
              \E q \in Range(loc_paths[1]) : Lower(Resolve(loc_fs, q)) = Lower(Resolve(loc_fs, f))
        /\ Qualifying # {} =>
              \A q \in Range(loc_paths[1]) : q \in Qualifying

(* C10: a copy whose target <prefix>-<basename> exists is stored under that name *)
(* with _k before the basename's extension, k the smallest integer from 2 upward *)
(* that yields an unused name.                                                   *)
C10_SuffixBeforeExtension ==
    LET prefix == cp_in.prefix
        base == Basename(cp_in.src)
        before == DOMAIN cp_in.out.files
        unused == {k \in 2..(Cardinality(before) + 2) :
                      SuffixedBeforeExtension(prefix, base, k) \notin before}
    IN  /\ cp_name # NoneVal /\ cp_name[1] # <<>>
        /\ (prefix \o <<45>> \o base) \in before
        => cp_name[1] = SuffixedBeforeExtension(prefix, base, SetMin(unused))
====
